---- MODULE Spec2Model ----
(***************************************************************************)
(* Model of assets/photos.js: the per-folder "Download ZIP" request (the   *)
(* folderTile zipBtn handler and the renderFolderPage topZip handler), the *)
(* pre-built archive probing (findAvailableZip), the client-side build     *)
(* (createZipFromFolder, mapWithConcurrency, fetchBlob), the sequential    *)
(* fallback (downloadFilesSequentially), downloadAllVisible and the shared *)
(* progress indicator (showGlobalProgress).                                *)
(* Folder discovery is modelled beside it: loadManifest and renderRoot,    *)
(* the toggle of a folder tile, and loadFolderIndex.                       *)
(*                                                                         *)
(* A path or URL is the sequence of its "/"-separated segments: the folder *)
(* path "/photos/Foo/" is <<"photos","Foo">>, the URL "/photos/Foo/a.jpg"  *)
(* is <<"photos","Foo","a.jpg">>.  An href of a listing keeps a trailing   *)
(* slash as a final empty segment: "sub/" is <<"sub","">>.                 *)
(*                                                                         *)
(* One request runs at a time; every suspension point of the code (a       *)
(* fetch, the script load, a timer, generateAsync) is a value of pc, and   *)
(* an action is the run from one suspension point to the next: the task    *)
(* that settles the awaited operation together with the microtasks it      *)
(* queues (for a file fetch: the rest of the mapper, cleanup, and the      *)
(* resumption of the loop awaiting Promise.race).  The page is taken to    *)
(* hold #zip-global-placeholder and #folders-root.  Whether a.click() on   *)
(* the link of a single file can throw is the input clickThrows: Spec      *)
(* takes it not to, SpecFault lets it.                                     *)
(* The download-all button's guard (dataset.busy) is the variable busy;    *)
(* allActive counts the runs of downloadAllVisible in flight and ignored   *)
(* the clicks the guard returned from.  SpecBusy is the download-all flow  *)
(* with such clicks, SpecMapLive is SpecMap with every pending fetch and   *)
(* generateAsync eventually settling.                                      *)
(***************************************************************************)
EXTENDS Integers, Sequences, FiniteSets, TLC

\* ------------------------------------------------------------------ bounds
MaxFiles == 3        \* longest task list of one build
MaxConc == 3         \* largest concurrency limit tried on mapWithConcurrency alone
MaxOps == 2          \* clicks on one page
MaxGenUpdates == 2   \* progress callbacks of one generateAsync run
MaxTiles == 2        \* folder tiles visible under #folders-root
MaxClicks == 3       \* clicks on one tile's toggle
MaxTotal == 200      \* longest task list whose progress values are followed
MaxIgnored == 1      \* clicks on download-all made while one is in progress

\* ------------------------------------------------------- program constants
Concurrency == 4     \* the limit both builds pass to mapWithConcurrency
FolderPauseMs == 250 \* downloadFilesSequentially's pause
AllPauseMs == 200    \* downloadAllVisible's fallback pause

VARIABLES
  pc,           \* suspension point of the running request, "idle" if none
  op,           \* the request: [kind, name, dir]
  opsLeft,      \* clicks still allowed
  probes,       \* HEAD probes issued by this request, in order: [url, found]
  lastRes,      \* what the last probe answered: "ok", "notok", "throw"
  cands,        \* candidate list handed to findAvailableZip
  ci,           \* index of the candidate whose probe is pending
  jszipLoaded,  \* window.JSZip is set
  hasZip,       \* createZipFromFolder's / downloadAllVisible's local flag
  buildStarted, \* createZipFromFolder or downloadAllVisible was entered
  listed,       \* number of listing fetches issued by this request
  tiles,        \* downloadAllVisible: the tiles found under #folders-root
  tix,          \* downloadAllVisible: index of the tile whose listing is pending
  files,        \* the task list: sequence of [dir, href, folder]
  concurrency,  \* mapWithConcurrency's limit
  idx,          \* mapWithConcurrency: next list position to start
  executing,    \* mapWithConcurrency: the executing set (list positions)
  status,       \* per task: "new", "inflight", "ok", "fail"
  starts,       \* per task: number of times its fetch was started
  completed,    \* the build's completed / done counter
  zip,          \* archive entries: set of [folder, entry, src]
  genCount,     \* progress callbacks generateAsync has made
  si,           \* sequential fallback: index of the file last triggered
  bar,          \* the #global-zip-progress element: [exists, value]
  wrote,        \* this request has written the indicator's value
  log,          \* what the request did to the user: downloads, pauses, alerts
  outcome,      \* how the last request ended, "none" while it runs
  clickThrows,  \* a.click() on the link of a single file can throw on this page
  busy,         \* #download-all-root's dataset.busy is '1'
  allActive,    \* calls of downloadAllVisible that have not ended
  ignored,      \* clicks on #download-all-root that the busy guard turned away
  page,         \* which page's discovery is followed: "root", "folder", "none"
  rootPc,       \* renderRoot / loadManifest: the await it is suspended at
  manifest,     \* loadManifest's call: [status, via, folders]
  rootTiles,    \* names of the folder tiles renderRoot appended to #folders-root
  hidden,       \* the first tile's contentWrap has the class "hidden"
  expanded,     \* the first tile's toggle has the class "expanded"
  loaded,       \* the first tile's contentWrap.dataset.loaded is set
  clicks,       \* clicks made on the first tile's toggle
  loads,        \* the loadFolderIndex calls made, in order: [caller, at, via, data]
  content       \* what the container of the listing shows: [kind, data]

browseVars == << page, rootPc, manifest, rootTiles, hidden, expanded, loaded, clicks,
                 loads, content >>

zipVars == << pc, op, opsLeft, probes, lastRes, cands, ci, jszipLoaded, hasZip,
              buildStarted, listed, tiles, tix, files, concurrency, idx, executing, status,
              starts, completed, zip, genCount, si, bar, wrote, log, outcome,
              clickThrows, busy, allActive, ignored >>

vars == << zipVars, browseVars >>

\* ----------------------------------------------------------- string helpers
TileNames == {"minnesota", "Minnesota", "Foo", "My Pics"}
ParentDirs == { <<"photos">>, <<"photos", "Foo">> }
PageDirs == { <<"photos", "minnesota">>, <<"photos", "Foo">> }

Last(s) == s[Len(s)]

\* String.prototype.toLowerCase on the names used
Lower(n) ==
  CASE n = "Minnesota" -> "minnesota"
    [] n = "Foo" -> "foo"
    [] n = "My Pics" -> "my pics"
    [] OTHER -> n

\* encodeURIComponent on the names used
Encode(n) ==
  CASE n = "My Pics" -> "My%20Pics"
    [] OTHER -> n

\* decodeURIComponent on the names used
Decode(n) ==
  CASE n = "My%20Pics" -> "My Pics"
    [] OTHER -> n

\* s.replace(/\s+/g, '_') on the names used
Underscore(n) ==
  CASE n = "My Pics" -> "My_Pics"
    [] OTHER -> n

\* the JavaScript idiom  s || d  on strings
OrDefault(s, d) == IF s = "" THEN d ELSE s

JSFloor(num, den) == num \div den

\* Math.round(num / den) for num >= 0, den > 0: halves round up
JSRound(num, den) == (2 * num + den) \div (2 * den)

\* ------------------------------------------------------- archive resolution
OverrideUrl == <<"photos", "minnesota", "minnesota.zip">>

IsSpecialCaseSensitive(name) == name # "" /\ name = "minnesota"

\* the guard of the tile handler's special case
IsSpecial(name) == name # "" /\ Lower(name) = "minnesota"

\* the candidate list of the tile handler
TileCandidates(name, dir) ==
  LET fn == Encode(OrDefault(name, "photos"))
  IN  << dir \o <<fn \o ".zip">>,
         dir \o <<fn \o ".ZIP">>,
         <<"photos", fn \o ".zip">>,
         <<"photos", "altfiles", fn \o ".zip">> >>

\* "/photos/Foo/".split('/') and the like
SplitPath(dir) == <<"">> \o dir \o <<"">>

\* s.replace(/\//, '') seen on the split form: the first slash goes, so the
\* first two segments become one
RemoveFirstSlash(s) ==
  IF Len(s) < 2 THEN s ELSE <<s[1] \o s[2]>> \o SubSeq(s, 3, Len(s))

\* renderFolderPage's folderName
PageFolderName(dir) == Decode(Last(RemoveFirstSlash(SplitPath(dir))))

\* the candidate list of the folder page handler
PageCandidates(folderName, dir) ==
  LET fn == Encode(folderName)
  IN  << dir \o <<fn \o ".zip">>,
         dir \o <<fn \o ".ZIP">>,
         <<"photos", fn \o ".zip">>,
         <<"photos", "altfiles", fn \o ".zip">> >>

ProbeResults == {"ok", "notok", "throw"}

ProbeFoundUnlessNotOk(res) == res # "notok"

\* findAvailableZip's test of one probe: res && res.ok, a throw is caught
ProbeFound(res) == res = "ok"

\* ------------------------------------------------------------------ listing
AnchorPool ==
  << <<"..", "">>, <<"sub", "">>, <<"a.jpg">>, <<"sub", "a.jpg">>, <<"b.jpg">>,
     <<"c.jpg">> >>

EndsWithSlash(h) == Last(h) = ""
EndsWithParent(h) == Len(h) >= 2 /\ Last(h) = "" /\ h[Len(h) - 1] = ".."

\* f.replace(/^.*\//, '')
Basename(h) == Last(h)

RECURSIVE SelectAnchors(_, _)
SelectAnchors(k, S) ==
  IF k > Len(AnchorPool) THEN << >>
  ELSE (IF k \in S THEN <<AnchorPool[k]>> ELSE << >>) \o SelectAnchors(k + 1, S)

\* hrefs of the anchors, without empty ones and without the parent link
RECURSIVE AnchorHrefs(_)
AnchorHrefs(anchors) ==
  IF anchors = << >> THEN << >>
  ELSE LET h == anchors[1]
       IN  (IF h # << >> /\ ~EndsWithParent(h) THEN <<h>> ELSE << >>)
             \o AnchorHrefs(SubSeq(anchors, 2, Len(anchors)))

RECURSIVE NotFolders(_)
NotFolders(hrefs) ==
  IF hrefs = << >> THEN << >>
  ELSE (IF ~EndsWithSlash(hrefs[1]) THEN <<hrefs[1]>> ELSE << >>)
         \o NotFolders(SubSeq(hrefs, 2, Len(hrefs)))

\* the files of a listing
ListingFiles(anchors) == NotFolders(AnchorHrefs(anchors))

\* the listings a folder may answer with
Listings == { SelectAnchors(1, S) : S \in SUBSET (1 .. Len(AnchorPool)) }

\* ------------------------------------------------------------------- events
Ev(type, url, name, ms) == [type |-> type, url |-> url, name |-> name, ms |-> ms]

Alert(text) == Ev("alert", << >>, text, 0)

\* a.href = url; a.download = name; a.click()
Download(type, url, name) == Ev(type, url, name, 0)

Pause(ms) == Ev("pause", << >>, "", ms)

\* suggested file name of one sequential download
SeqFileName(folder, href) ==
  (IF folder # "" THEN Underscore(folder) \o "_" ELSE "") \o Basename(href)

SeqDownload(t) == Download("file", t.dir \o t.href, SeqFileName(t.folder, t.href))

\* a.click() threw for task t: nothing is downloaded
Threw(t) == Ev("threw", t.dir \o t.href, "", 0)

\* the link of task t is built and clicked
Trigger(t, thrown) == IF thrown THEN Threw(t) ELSE SeqDownload(t)

\* --------------------------------------------------------------- indicator
\* The page's indicator: exists says that q('#global-zip-progress') finds an
\* element, value is that element's value, count the number of <progress>
\* elements showGlobalProgress has appended to #zip-global-placeholder.
NoBar == [exists |-> FALSE, value |-> 0, count |-> 0]

ShowGlobalProgressAlwaysCreates(b) ==
  [exists |-> TRUE, value |-> 0, count |-> b.count + 1]

\* showGlobalProgress: the element is created, with value 0, only if absent
ShowGlobalProgress(b) ==
  IF b.exists THEN b ELSE [exists |-> TRUE, value |-> 0, count |-> b.count + 1]

SetValue(b, v) == [b EXCEPT !.value = v]

LeaveValue(b) == b

\* the orchestrating operation's last write
ForceComplete(b) == SetValue(b, 100)

\* (completed / total) * 100 is computed in IEEE doubles.  For these pairs
\* <<completed, total>>, all there are with total <= MaxTotal + 1, the exact
\* quotient ends in .5 and the double falls just below it (23 / 40 * 100 is
\* 57.49999999999999), so Math.round gives one less than exact rounding.
DoubleBelowHalf ==
  { <<23, 40>>, <<46, 80>>, <<69, 120>>, <<92, 160>>, <<29, 200>>, <<57, 200>>,
    <<113, 200>>, <<115, 200>> }

\* Math.round((completed / total) * 100)
Percent(done, total) ==
  IF <<done, total>> \in DoubleBelowHalf
  THEN JSRound(done * 100, total) - 1
  ELSE JSRound(done * 100, total)

\* meta.percent of generateAsync's callback, in tenths of a percent
GenPercents == {0, 505, 1000}

\* if (meta.percent) progressBar.value = Math.round(meta.percent)
GenWrite(b, p) == IF p # 0 THEN SetValue(b, JSRound(p, 10)) ELSE b

\* ------------------------------------------------------ mapWithConcurrency
MapBlocksStrict(size, limit) == size > limit

\* if (executing.size >= concurrency) await Promise.race(executing)
MapBlocks(size, limit) == size >= limit

\* One synchronous run of the for loop from position i: each iteration starts
\* the mapper (its fetch goes out) and adds the promise to executing; the run
\* stops at the first await Promise.race, or at Promise.all once the list is
\* exhausted.
ItemFromEnd(i, n) == n + 1 - i

\* for (const item of list): the i-th iteration takes the i-th item
Item(i, n) == i

RECURSIVE MapWithConcurrencyRun(_, _, _, _, _, _)
MapWithConcurrencyRun(i, exec, st, sts, n, limit) ==
  IF i > n
  THEN [idx |-> i, executing |-> exec, status |-> st, starts |-> sts, pc |-> "all"]
  ELSE LET exec1 == exec \cup {Item(i, n)}
           st1 == [st EXCEPT ![Item(i, n)] = "inflight"]
           sts1 == [sts EXCEPT ![Item(i, n)] = @ + 1]
       IN  IF MapBlocks(Cardinality(exec1), limit)
           THEN [idx |-> i + 1, executing |-> exec1, status |-> st1,
                 starts |-> sts1, pc |-> "race"]
           ELSE MapWithConcurrencyRun(i + 1, exec1, st1, sts1, n, limit)

BatchResumes(left) == left = {}

\* await Promise.race(executing) is over as soon as one promise of the set
\* has settled, whatever is left in flight
RaceResumes(left) == TRUE

FetchResults == {"ok", "notok", "throw"}

\* fetchBlob: a rejected fetch or a response that is not ok throws
FetchBlobOk(res) == res = "ok"

MapperRethrows(ok) == IF ok THEN "fulfilled" ELSE "rejected"

\* the builds' mappers: try / catch / finally, so the promise always fulfils
MapperSettles(ok) == "fulfilled"

\* folder.file(name, blob): an entry of the same name in the same folder is replaced
ZipPut(z, folder, entry, src) ==
  { e \in z : ~(e.folder = folder /\ e.entry = entry) }
    \cup { [folder |-> folder, entry |-> entry, src |-> src] }

\* the archive folder a task's file goes to
ZipFolder(kind, t) == IF kind = "all" THEN t.folder ELSE OrDefault(t.folder, "photos")

AllSucceeded(st) == \A k \in DOMAIN st : st[k] = "ok"

\* Promise.all(results) is over: every mapper promise has settled, and the
\* mapper fulfils its promise after a failed fetch as after a good one
Settled(st) == \A k \in DOMAIN st : st[k] \in {"ok", "fail"}

InFlight == { k \in DOMAIN status : status[k] = "inflight" }

\* -------------------------------------------------------- sequential fallback
SeqContinueSkipsLast(i, n) == i + 1 < n

\* downloadFilesSequentially's loop test, i counting the files already triggered
SeqContinue(i, n) == i < n

\* -------------------------------------------------------------------- tiles
TilePool == <<"Foo", "minnesota", "My Pics", "Minnesota">>

\* path of a root tile as downloadAllVisible reads it back from the Open link
TilePath(name) == <<"photos", Encode(name)>>

Tasks(dir, hrefs, folder) ==
  [k \in 1 .. Len(hrefs) |-> [dir |-> dir, href |-> hrefs[k], folder |-> folder]]

\* ----------------------------------------------------------------- frames
probeVars == << probes, lastRes, cands, ci >>
mapVars == << files, idx, executing, status, starts, completed, zip >>

NoOp == [kind |-> "none", name |-> "", dir |-> << >>]

\* the per-request bookkeeping a click starts from
ResetRequest ==
  /\ probes' = << >>
  /\ lastRes' = "none"
  /\ hasZip' = TRUE
  /\ listed' = 0
  /\ tix' = 0
  /\ files' = << >>
  /\ idx' = 1
  /\ executing' = {}
  /\ status' = << >>
  /\ starts' = << >>
  /\ completed' = 0
  /\ zip' = {}
  /\ genCount' = 0
  /\ si' = 0
  /\ wrote' = FALSE
  /\ log' = << >>
  /\ outcome' = "none"

\* a listing without entries
NoData == [files |-> << >>, folders |-> << >>]

\* loadManifest has not returned
NoManifest == [status |-> "pending", via |-> "none", has |-> TRUE, folders |-> << >>]

\* the discovery part when it is not followed
BrowseAtRest ==
  /\ page = "none"
  /\ rootPc = "none"
  /\ manifest = NoManifest
  /\ rootTiles = << >>
  /\ hidden = TRUE
  /\ expanded = FALSE
  /\ loaded = FALSE
  /\ clicks = 0
  /\ loads = << >>
  /\ content = [kind |-> "none", data |-> NoData]

\* no archive request was made yet
ZipAtRest ==
  /\ pc = "idle"
  /\ op = NoOp
  /\ opsLeft = MaxOps
  /\ probes = << >>
  /\ lastRes = "none"
  /\ cands = << >>
  /\ ci = 0
  /\ jszipLoaded = FALSE
  /\ hasZip = TRUE
  /\ buildStarted = FALSE
  /\ listed = 0
  /\ tiles = << >>
  /\ tix = 0
  /\ files = << >>
  /\ concurrency = Concurrency
  /\ idx = 1
  /\ executing = {}
  /\ status = << >>
  /\ starts = << >>
  /\ completed = 0
  /\ zip = {}
  /\ genCount = 0
  /\ si = 0
  /\ bar = NoBar
  /\ wrote = FALSE
  /\ log = << >>
  /\ outcome = "none"
  /\ busy = FALSE
  /\ allActive = 0
  /\ ignored = 0

NeverBusy(flag) == FALSE

\* the handler's guard: dl.dataset.busy === '1'
Busy(flag) == flag

\* the finally of the download-all click handler, run when the request that
\* ends (pc' = "idle") is a downloadAllVisible: the flag is cleared
HandlerFinally ==
  IF op.kind = "all" /\ pc' = "idle"
  THEN /\ busy' = FALSE
       /\ allActive' = allActive - 1
  ELSE UNCHANGED << busy, allActive >>

Init ==
  /\ BrowseAtRest
  /\ ZipAtRest
  /\ clickThrows = FALSE

\* what a.click() can do
ClickOutcomes == IF clickThrows THEN {FALSE, TRUE} ELSE {FALSE}

\* ------------------------------------------------- per-folder archive request
\* zipBtn click on a folder tile, up to the first await
ClickTileZip ==
  \E name \in TileNames, parent \in ParentDirs :
    /\ pc = "idle"
    /\ opsLeft > 0
    /\ opsLeft' = opsLeft - 1
    /\ op' = [kind |-> "tile", name |-> name, dir |-> parent \o <<name>>]
    /\ ResetRequest
    /\ buildStarted' = FALSE
    /\ tiles' = << >>
    /\ IF IsSpecial(name)
       THEN /\ pc' = "override"
            /\ cands' = << >>
            /\ ci' = 0
       ELSE /\ pc' = "probe"
            /\ cands' = TileCandidates(name, parent \o <<name>>)
            /\ ci' = 1
    /\ UNCHANGED << jszipLoaded, concurrency, bar >>
    /\ UNCHANGED << browseVars, clickThrows, ignored >>
    /\ UNCHANGED << busy, allActive >>

\* topZip click on a folder page, up to the first await
ClickPageZip ==
  \E dir \in PageDirs :
    /\ pc = "idle"
    /\ opsLeft > 0
    /\ opsLeft' = opsLeft - 1
    /\ op' = [kind |-> "page", name |-> PageFolderName(dir), dir |-> dir]
    /\ ResetRequest
    /\ buildStarted' = FALSE
    /\ tiles' = << >>
    /\ pc' = "override"
    /\ cands' = << >>
    /\ ci' = 0
    /\ UNCHANGED << jszipLoaded, concurrency, bar >>
    /\ UNCHANGED << browseVars, clickThrows, ignored >>
    /\ UNCHANGED << busy, allActive >>

\* name of the download a found candidate is saved under
ZipDownloadName(name) == OrDefault(name, "photos") \o ".zip"

\* createZipFromFolder up to its first await, of ensureJSZip
EnterCreateZip ==
  /\ buildStarted' = TRUE
  /\ pc' = "jszip"
  /\ UNCHANGED listed

OverrideFallsThrough(res) == FALSE

\* the special case's test of its probe: response.ok, then download and return
OverrideFound(res) == res = "ok"

\* the HEAD of the override archive answers
OverrideProbe ==
  \E res \in ProbeResults :
    /\ pc = "override"
    /\ probes' = Append(probes, [url |-> OverrideUrl, found |-> (res = "ok")])
    /\ lastRes' = res
    /\ IF OverrideFound(res)
       THEN /\ log' = Append(log, Download("prebuilt", OverrideUrl, "minnesota.zip"))
            /\ pc' = "idle"
            /\ outcome' = "prebuilt"
            /\ UNCHANGED << cands, ci >>
       ELSE /\ cands' = IF op.kind = "tile" THEN TileCandidates(op.name, op.dir)
                        ELSE PageCandidates(op.name, op.dir)
            /\ ci' = 1
            /\ pc' = "probe"
            /\ UNCHANGED << log, outcome >>
    /\ UNCHANGED << op, opsLeft, jszipLoaded, hasZip, buildStarted, listed,
                    tiles, tix, concurrency, genCount, si, bar, wrote >>
    /\ UNCHANGED mapVars
    /\ UNCHANGED << browseVars, clickThrows, ignored >>
    /\ UNCHANGED << busy, allActive >>

\* findAvailableZip: the HEAD of candidate ci answers; on null the handler
\* calls createZipFromFolder
FindAvailableZipStep ==
  \E res \in ProbeResults :
    /\ pc = "probe"
    /\ probes' = Append(probes, [url |-> cands[ci], found |-> ProbeFound(res)])
    /\ lastRes' = res
    /\ IF ProbeFound(res)
       THEN /\ log' = Append(log, Download("prebuilt", cands[ci],
                                           ZipDownloadName(op.name)))
            /\ pc' = "idle"
            /\ outcome' = "prebuilt"
            /\ UNCHANGED << ci, buildStarted, listed >>
       ELSE IF ci < Len(cands)
            THEN /\ ci' = ci + 1
                 /\ UNCHANGED << pc, log, outcome, buildStarted, listed >>
            ELSE /\ EnterCreateZip
                 /\ UNCHANGED << ci, log, outcome >>
    /\ UNCHANGED << op, opsLeft, cands, jszipLoaded, hasZip, tiles, tix,
                    concurrency, genCount, si, bar, wrote >>
    /\ UNCHANGED mapVars
    /\ UNCHANGED << browseVars, clickThrows, ignored >>
    /\ UNCHANGED << busy, allActive >>

\* ------------------------------------------------------------ the transfer
\* From the task list to the first suspension point of the transfer: without
\* JSZip the first single-file download and its pause, with it the first run
\* of mapWithConcurrency.  A click that throws ends downloadFilesSequentially
\* and with it createZipFromFolder; downloadAllVisible's loop catches it.
StartTransfer(kind, fl, hasZ, b, limit, thrown) ==
  LET n == Len(fl)
      st0 == [k \in 1 .. n |-> "new"]
      sts0 == [k \in 1 .. n |-> 0]
      r == MapWithConcurrencyRun(1, {}, st0, sts0, n, limit)
  IN  IF ~hasZ
      THEN [pc |-> IF kind = "all" THEN "allpause"
                   ELSE IF thrown THEN "idle" ELSE "pause",
            outcome |-> IF kind # "all" /\ thrown THEN "error" ELSE "none",
            bar |-> IF kind = "all" THEN SetValue(b, Percent(1, n))
                    ELSE SetValue(ShowGlobalProgress(b), 0),
            wrote |-> TRUE,
            idx |-> 1, executing |-> {}, status |-> st0, starts |-> sts0,
            completed |-> IF kind = "all" THEN 1 ELSE 0,
            si |-> 1,
            log |-> IF kind = "all" THEN << Trigger(fl[1], thrown), Pause(AllPauseMs) >>
                    ELSE IF thrown THEN << Threw(fl[1]) >>
                    ELSE << SeqDownload(fl[1]), Pause(FolderPauseMs) >>]
      ELSE [pc |-> r.pc,
            outcome |-> "none",
            bar |-> ShowGlobalProgress(b),
            wrote |-> FALSE,
            idx |-> r.idx, executing |-> r.executing, status |-> r.status,
            starts |-> r.starts,
            completed |-> 0,
            si |-> 0,
            log |-> << >>]

\* ensureJSZip settles: the script loaded (or was there already), or failed
EnsureJSZipSettles ==
  \E ok \in BOOLEAN :
    /\ pc = "jszip"
    /\ jszipLoaded => ok
    /\ hasZip' = ok
    /\ jszipLoaded' = ok
    /\ IF op.kind = "all"
       THEN /\ bar' = ShowGlobalProgress(bar)
            /\ IF tiles = << >>
               THEN /\ log' = Append(log, Alert("No files found"))
                    /\ pc' = "idle"
                    /\ outcome' = "nofiles"
                    /\ UNCHANGED << tix, listed >>
               ELSE /\ pc' = "alllist"
                    /\ tix' = 1
                    /\ listed' = 1
                    /\ UNCHANGED << log, outcome >>
       ELSE /\ pc' = "list"
            /\ listed' = 1
            /\ UNCHANGED << bar, tix, log, outcome >>
    /\ UNCHANGED << op, opsLeft, buildStarted, tiles, concurrency, genCount, si, wrote >>
    /\ UNCHANGED probeVars
    /\ UNCHANGED mapVars
    /\ UNCHANGED << browseVars, clickThrows, ignored >>
    /\ HandlerFinally

\* createZipFromFolder: the listing fetch settles
CreateZipListing ==
  \E kind \in {"throw", "notok", "ok"} :
    \E anchors \in (IF kind = "ok" THEN Listings ELSE { << >> }), thrown \in ClickOutcomes :
      LET fl == Tasks(op.dir, ListingFiles(anchors), op.name)
          t == StartTransfer(op.kind, fl, hasZip, bar, concurrency, thrown)
      IN  /\ pc = "list"
          /\ Len(fl) <= MaxFiles
          /\ IF kind = "throw"
             THEN /\ pc' = "idle"
                  /\ outcome' = "error"
                  /\ UNCHANGED << log, bar, wrote, si >>
                  /\ UNCHANGED mapVars
             ELSE IF kind = "notok"
             THEN /\ log' = Append(log, Alert("Failed to list folder"))
                  /\ pc' = "idle"
                  /\ outcome' = "listfail"
                  /\ UNCHANGED << bar, wrote, si >>
                  /\ UNCHANGED mapVars
             ELSE IF fl = << >>
             THEN /\ log' = Append(log, Alert("No files found to zip"))
                  /\ pc' = "idle"
                  /\ outcome' = "nofiles"
                  /\ UNCHANGED << bar, wrote, si >>
                  /\ UNCHANGED mapVars
             ELSE /\ files' = fl
                  /\ pc' = t.pc
                  /\ bar' = t.bar
                  /\ wrote' = t.wrote
                  /\ idx' = t.idx
                  /\ executing' = t.executing
                  /\ status' = t.status
                  /\ starts' = t.starts
                  /\ completed' = t.completed
                  /\ si' = t.si
                  /\ log' = log \o t.log
                  /\ outcome' = t.outcome
                  /\ UNCHANGED zip
          /\ UNCHANGED << op, opsLeft, jszipLoaded, hasZip, buildStarted, listed, tiles,
                          tix, concurrency, genCount >>
          /\ UNCHANGED probeVars
          /\ UNCHANGED << browseVars, clickThrows, ignored >>
          /\ UNCHANGED << busy, allActive >>

\* One task's fetch settles: the rest of its mapper runs (the entry is added
\* or the file skipped, the counter and the indicator move), its promise
\* settles, cleanup takes it out of executing, and the loop of
\* mapWithConcurrency, if it waits in Promise.race, runs on.
TaskSettles ==
  \E i \in DOMAIN status, res \in FetchResults :
    LET t == files[i]
        ok == FetchBlobOk(res)
        st1 == [status EXCEPT ![i] = IF ok THEN "ok" ELSE "fail"]
        exec1 == executing \ {i}
        r == IF pc = "race" /\ RaceResumes(exec1)
             THEN MapWithConcurrencyRun(idx, exec1, st1, starts, Len(files), concurrency)
             ELSE [idx |-> idx, executing |-> exec1, status |-> st1,
                   starts |-> starts, pc |-> pc]
    IN  /\ pc \in {"race", "all"}
        /\ status[i] = "inflight"
        /\ zip' = IF ok THEN ZipPut(zip, ZipFolder(op.kind, t), Basename(t.href),
                                    t.dir \o t.href)
                  ELSE zip
        /\ completed' = completed + 1
        /\ bar' = SetValue(bar, Percent(completed + 1, Len(files)))
        /\ wrote' = TRUE
        /\ IF MapperSettles(ok) = "fulfilled"
           THEN /\ idx' = r.idx
                /\ executing' = r.executing
                /\ status' = r.status
                /\ starts' = r.starts
                /\ pc' = IF r.pc = "all" /\ Settled(r.status) THEN "gen" ELSE r.pc
                /\ UNCHANGED outcome
           ELSE \* Promise.race / Promise.all rejects and the build ends there
                /\ status' = st1
                /\ executing' = exec1
                /\ pc' = "idle"
                /\ outcome' = "error"
                /\ UNCHANGED << idx, starts >>
        /\ UNCHANGED << op, opsLeft, jszipLoaded, hasZip, buildStarted, listed, tiles, tix,
                        files, concurrency, genCount, si, log >>
        /\ UNCHANGED probeVars
        /\ UNCHANGED << browseVars, clickThrows, ignored >>
        /\ HandlerFinally

\* The finally block of a build's mapper on its own: the counter and the
\* indicator after one more task has resolved, by success or by failure.
MapperFinally ==
  /\ pc = "race"
  /\ status = << >>
  /\ completed < Len(files)
  /\ completed' = completed + 1
  /\ bar' = SetValue(bar, Percent(completed + 1, Len(files)))
  /\ wrote' = TRUE
  /\ UNCHANGED << pc, op, opsLeft, jszipLoaded, hasZip, buildStarted, listed, tiles, tix,
                  files, concurrency, idx, executing, status, starts, zip, genCount, si,
                  log, outcome >>
  /\ UNCHANGED probeVars
  /\ UNCHANGED << browseVars, clickThrows, ignored >>
  /\ UNCHANGED << busy, allActive >>

\* generateAsync calls its progress callback
GenUpdate ==
  \E p \in GenPercents :
    /\ pc = "gen"
    /\ genCount < MaxGenUpdates
    /\ genCount' = genCount + 1
    /\ bar' = GenWrite(bar, p)
    /\ wrote' = (wrote \/ p # 0)
    /\ UNCHANGED << pc, op, opsLeft, jszipLoaded, hasZip, buildStarted, listed, tiles, tix,
                    concurrency, si, log, outcome >>
    /\ UNCHANGED probeVars
    /\ UNCHANGED mapVars
    /\ UNCHANGED << browseVars, clickThrows, ignored >>
    /\ UNCHANGED << busy, allActive >>

ArchiveName == IF op.kind = "all" THEN "photos-all.zip" ELSE ZipDownloadName(op.name)

\* generateAsync resolves: the archive is downloaded and the indicator set
GenDone ==
  /\ pc = "gen"
  /\ log' = Append(log, Download("archive", <<"blob:">>, ArchiveName))
  /\ bar' = ForceComplete(bar)
  /\ wrote' = TRUE
  /\ pc' = "idle"
  /\ outcome' = "archive"
  /\ UNCHANGED << op, opsLeft, jszipLoaded, hasZip, buildStarted, listed, tiles, tix,
                  concurrency, genCount, si >>
  /\ UNCHANGED probeVars
  /\ UNCHANGED mapVars
  /\ UNCHANGED << browseVars, clickThrows, ignored >>
  /\ HandlerFinally

\* downloadFilesSequentially: the 250 ms timer fires
DownloadFilesSequentiallyStep ==
  \E thrown \in ClickOutcomes :
    /\ pc = "pause"
    /\ IF SeqContinue(si, Len(files))
       THEN IF thrown
            THEN \* the loop has no catch: createZipFromFolder rejects
                 /\ si' = si + 1
                 /\ log' = Append(log, Threw(files[si + 1]))
                 /\ pc' = "idle"
                 /\ outcome' = "error"
                 /\ UNCHANGED bar
            ELSE /\ si' = si + 1
                 /\ log' = log \o << SeqDownload(files[si + 1]), Pause(FolderPauseMs) >>
                 /\ UNCHANGED << pc, bar, outcome >>
       ELSE /\ bar' = ForceComplete(ShowGlobalProgress(bar))
            /\ pc' = "idle"
            /\ outcome' = "sequential"
            /\ UNCHANGED << si, log >>
    /\ UNCHANGED << op, opsLeft, jszipLoaded, hasZip, buildStarted, listed, tiles, tix,
                    concurrency, genCount, wrote >>
    /\ UNCHANGED probeVars
    /\ UNCHANGED mapVars
    /\ UNCHANGED << browseVars, clickThrows, ignored >>
    /\ UNCHANGED << busy, allActive >>

\* ------------------------------------------------------- downloadAllVisible
\* click on #download-all-root: downloadAllVisible up to its first await
\* the handler past its guard: the flag is set and downloadAllVisible runs
\* up to its first await
StartDownloadAll ==
  \E n \in 0 .. MaxTiles :
    /\ n <= Len(TilePool)
    /\ busy' = TRUE
    /\ allActive' = allActive + 1
    /\ op' = [kind |-> "all", name |-> "", dir |-> << >>]
    /\ tiles' = SubSeq(TilePool, 1, n)
    /\ cands' = << >>
    /\ ci' = 0
    /\ ResetRequest
    /\ buildStarted' = TRUE
    /\ pc' = "jszip"
    /\ UNCHANGED << jszipLoaded, concurrency, bar >>
    /\ UNCHANGED << browseVars, clickThrows >>

ClickDownloadAll ==
  /\ pc = "idle"
  /\ opsLeft > 0
  /\ ~Busy(busy)
  /\ opsLeft' = opsLeft - 1
  /\ StartDownloadAll
  /\ UNCHANGED ignored

\* click on #download-all-root while a downloadAllVisible is in progress: the
\* guard returns at once; were the flag not set, a second call would start
ClickDownloadAllBusy ==
  /\ op.kind = "all"
  /\ pc # "idle"
  /\ ignored < MaxIgnored
  /\ IF Busy(busy)
     THEN /\ ignored' = ignored + 1
          /\ UNCHANGED << pc, op, opsLeft, jszipLoaded, hasZip, buildStarted, listed,
                          tiles, tix, concurrency, genCount, si, bar, wrote, log, outcome,
                          busy, allActive >>
          /\ UNCHANGED probeVars
          /\ UNCHANGED mapVars
          /\ UNCHANGED << browseVars, clickThrows >>
     ELSE /\ StartDownloadAll
          /\ UNCHANGED << opsLeft, ignored >>

\* the listing fetch of tile tix settles
DownloadAllListing ==
  \E kind \in {"throw", "notok", "ok"} :
    \E anchors \in (IF kind = "ok" THEN Listings ELSE { << >> }), thrown \in ClickOutcomes :
      LET name == tiles[tix]
          fl == files \o Tasks(TilePath(name), ListingFiles(anchors), name)
          t == StartTransfer("all", fl, hasZip, bar, concurrency, thrown)
      IN  /\ pc = "alllist"
          /\ Len(fl) <= MaxFiles
          /\ IF kind = "throw"
             THEN \* downloadAllVisible rejects; the click handler reports it
                  /\ log' = Append(log, Alert("Download failed"))
                  /\ pc' = "idle"
                  /\ outcome' = "error"
                  /\ UNCHANGED << tix, listed, bar, wrote, si >>
                  /\ UNCHANGED mapVars
             ELSE IF tix < Len(tiles)
             THEN /\ files' = fl
                  /\ tix' = tix + 1
                  /\ listed' = listed + 1
                  /\ UNCHANGED << pc, log, outcome, bar, wrote, si >>
                  /\ UNCHANGED << idx, executing, status, starts, completed, zip >>
             ELSE IF fl = << >>
             THEN /\ log' = Append(log, Alert("No files found"))
                  /\ pc' = "idle"
                  /\ outcome' = "nofiles"
                  /\ UNCHANGED << tix, listed, bar, wrote, si >>
                  /\ UNCHANGED mapVars
             ELSE /\ files' = fl
                  /\ pc' = t.pc
                  /\ bar' = t.bar
                  /\ wrote' = t.wrote
                  /\ idx' = t.idx
                  /\ executing' = t.executing
                  /\ status' = t.status
                  /\ starts' = t.starts
                  /\ completed' = t.completed
                  /\ si' = t.si
                  /\ log' = log \o t.log
                  /\ outcome' = t.outcome
                  /\ UNCHANGED << zip, tix, listed >>
          /\ UNCHANGED << op, opsLeft, jszipLoaded, hasZip, buildStarted, tiles,
                          concurrency, genCount >>
          /\ UNCHANGED probeVars
          /\ UNCHANGED << browseVars, clickThrows, ignored >>
          /\ HandlerFinally

\* the fallback loop of downloadAllVisible: the 200 ms timer fires
DownloadAllFallbackStep ==
  \E thrown \in ClickOutcomes :
    /\ pc = "allpause"
    /\ IF si < Len(files)
       THEN /\ si' = si + 1
            /\ log' = log \o << Trigger(files[si + 1], thrown), Pause(AllPauseMs) >>
            /\ completed' = completed + 1
            /\ bar' = SetValue(bar, Percent(completed + 1, Len(files)))
            /\ UNCHANGED << pc, outcome >>
       ELSE /\ bar' = ForceComplete(bar)
            /\ pc' = "idle"
            /\ outcome' = "sequential"
            /\ UNCHANGED << si, log, completed >>
    /\ UNCHANGED << op, opsLeft, jszipLoaded, hasZip, buildStarted, listed, tiles, tix,
                    concurrency, genCount, wrote >>
    /\ UNCHANGED probeVars
    /\ UNCHANGED << files, idx, executing, status, starts, zip >>
    /\ UNCHANGED << browseVars, clickThrows, ignored >>
    /\ HandlerFinally

\* ---------------------------------------------------------------- discovery
\* what a folder's index.json may hold
IndexJsons ==
  { NoData,
    [files |-> << <<"a.jpg">>, <<"b.jpg">> >>, folders |-> << <<"sub">> >>] }

\* the src attributes of the <img> tags a folder's HTML page may hold
ImgLists == { << >>, << <<"img", "p.jpg">> >> }

\* what /photos/manifest.json may hold: with or without a "folders" key
ManifestFiles ==
  { [has |-> TRUE, folders |-> << <<"Foo">>, <<"minnesota">> >>],
    [has |-> TRUE, folders |-> << >>],
    [has |-> FALSE, folders |-> << >>] }

\* href === '../'
IsParentLink(h) == h = <<"..", "">>

\* loadFolderIndex's anchors.forEach: the hrefs pushed to files
RECURSIVE IndexFiles(_)
IndexFiles(anchors) ==
  IF anchors = << >> THEN << >>
  ELSE LET h == anchors[1]
       IN  (IF h # << >> /\ ~IsParentLink(h) /\ ~EndsWithSlash(h) THEN <<h>> ELSE << >>)
             \o IndexFiles(Tail(anchors))

\* loadFolderIndex's anchors.forEach: the names pushed to folders
RECURSIVE IndexFolders(_)
IndexFolders(anchors) ==
  IF anchors = << >> THEN << >>
  ELSE LET h == anchors[1]
       IN  (IF h # << >> /\ ~IsParentLink(h) /\ EndsWithSlash(h)
            THEN <<RemoveFirstSlash(h)>> ELSE << >>)
             \o IndexFolders(Tail(anchors))

\* the <img> sources collapsed to file names
RECURSIVE ImgNames(_)
ImgNames(imgs) ==
  IF imgs = << >> THEN << >>
  ELSE (IF imgs[1] # << >> THEN << <<Basename(imgs[1])>> >> ELSE << >>)
         \o ImgNames(Tail(imgs))

\* what loadFolderIndex builds from the folder's HTML
HtmlIndex(anchors, imgs) ==
  LET f == IndexFiles(anchors)
  IN  [files |-> IF f = << >> THEN ImgNames(imgs) ELSE f,
       folders |-> IndexFolders(anchors)]

\* loadManifest's fallback: the links ending in "/" become the folder names
RECURSIVE ManifestFolders(_)
ManifestFolders(anchors) ==
  IF anchors = << >> THEN << >>
  ELSE LET h == anchors[1]
       IN  (IF h # << >> /\ EndsWithSlash(h) THEN <<RemoveFirstSlash(h)>> ELSE << >>)
             \o ManifestFolders(Tail(anchors))

FallbackRethrown(err) ==
  [status |-> "rejected", via |-> "none", has |-> TRUE, folders |-> << >>]

\* loadManifest's inner catch: return { folders: [] }
FallbackCaught(err) ==
  [status |-> "returned", via |-> "empty", has |-> TRUE, folders |-> << >>]

\* renderRoot after  await loadManifest(): manifest.folders || [] ; one tile
\* per folder, or "No folders found"
RenderRoot(m) ==
  /\ manifest' = m
  /\ IF m.status = "rejected"
     THEN /\ rootPc' = "failed"
          /\ rootTiles' = << >>
     ELSE /\ rootPc' = "done"
          /\ rootTiles' = IF m.has THEN m.folders ELSE << >>

\* fetch('/photos/manifest.json') settles
ManifestFetch ==
  \E res \in FetchResults :
    /\ rootPc = "manifest"
    /\ rootPc' = IF res = "ok" THEN "mjson" ELSE "root"
    /\ UNCHANGED << page, manifest, rootTiles, hidden, expanded, loaded, clicks, loads,
                    content >>
    /\ UNCHANGED zipVars

\* res.json() of the manifest settles
ManifestJson ==
  \E ok \in BOOLEAN :
    \E m \in (IF ok THEN ManifestFiles ELSE { [has |-> TRUE, folders |-> << >>] }) :
      /\ rootPc = "mjson"
      /\ IF ok
         THEN RenderRoot([status |-> "returned", via |-> "json", has |-> m.has,
                          folders |-> m.folders])
         ELSE /\ rootPc' = "root"
              /\ UNCHANGED << manifest, rootTiles >>
      /\ UNCHANGED << page, hidden, expanded, loaded, clicks, loads, content >>
      /\ UNCHANGED zipVars

\* loadManifest's fallback: fetch('/photos/') settles
RootFetch ==
  \E res \in FetchResults :
    /\ rootPc = "root"
    /\ IF res = "throw"
       THEN RenderRoot(FallbackCaught(res))
       ELSE /\ rootPc' = "rtext"
            /\ UNCHANGED << manifest, rootTiles >>
    /\ UNCHANGED << page, hidden, expanded, loaded, clicks, loads, content >>
    /\ UNCHANGED zipVars

\* loadManifest's fallback: res.text() settles and the anchors are parsed
RootText ==
  \E ok \in BOOLEAN :
    \E anchors \in (IF ok THEN Listings ELSE { << >> }) :
      /\ rootPc = "rtext"
      /\ IF ok
         THEN RenderRoot([status |-> "returned", via |-> "html", has |-> TRUE,
                          folders |-> ManifestFolders(anchors)])
         ELSE RenderRoot(FallbackCaught("throw"))
      /\ UNCHANGED << page, hidden, expanded, loaded, clicks, loads, content >>
      /\ UNCHANGED zipVars

\* a call of loadFolderIndex up to its first await
NewLoad(caller) == [caller |-> caller, at |-> "index", via |-> "none", data |-> NoData]

\* click on the toggle of the first tile
ToggleClick ==
  LET opened == ~hidden   \* classList.toggle's result: "hidden" is now present
  IN  /\ page = "root"
      /\ rootPc = "done"
      /\ rootTiles # << >>
      /\ clicks < MaxClicks
      /\ clicks' = clicks + 1
      /\ hidden' = opened
      /\ expanded' = ~expanded
      /\ loads' = IF ~opened /\ ~loaded THEN Append(loads, NewLoad("tile")) ELSE loads
      /\ UNCHANGED << page, rootPc, manifest, rootTiles, loaded, content >>
      /\ UNCHANGED zipVars

\* loadFolderIndex call k is over; its caller runs on: the toggle handler
\* renders the data and sets dataset.loaded, or shows its error text;
\* renderFolderPage renders the page, and has no catch
LoadFolderIndexSettles(k, at, via, data) ==
  /\ loads' = [loads EXCEPT ![k] = [caller |-> loads[k].caller, at |-> at, via |-> via,
                                    data |-> data]]
  /\ IF loads[k].caller = "tile"
     THEN IF at = "returned"
          THEN /\ content' = [kind |-> "listing", data |-> data]
               /\ loaded' = TRUE
          ELSE /\ content' = [kind |-> "failed", data |-> NoData]
               /\ UNCHANGED loaded
     ELSE IF at = "returned"
          THEN /\ content' = [kind |-> "page", data |-> data]
               /\ UNCHANGED loaded
          ELSE UNCHANGED << content, loaded >>

\* loadFolderIndex call k moves to its next await
LoadFolderIndexAwaits(k, at) ==
  /\ loads' = [loads EXCEPT ![k].at = at]
  /\ UNCHANGED << content, loaded >>

\* loadFolderIndex: fetch(folderPath + 'index.json') settles
IndexFetch ==
  \E k \in DOMAIN loads, res \in FetchResults :
    /\ loads[k].at = "index"
    /\ LoadFolderIndexAwaits(k, IF res = "ok" THEN "json" ELSE "html")
    /\ UNCHANGED << page, rootPc, manifest, rootTiles, hidden, expanded, clicks >>
    /\ UNCHANGED zipVars

\* loadFolderIndex: res.json() of index.json settles
IndexJson ==
  \E k \in DOMAIN loads, ok \in BOOLEAN :
    \E data \in (IF ok THEN IndexJsons ELSE { NoData }) :
      /\ loads[k].at = "json"
      /\ IF ok
         THEN LoadFolderIndexSettles(k, "returned", "json", data)
         ELSE LoadFolderIndexAwaits(k, "html")
      /\ UNCHANGED << page, rootPc, manifest, rootTiles, hidden, expanded, clicks >>
      /\ UNCHANGED zipVars

\* loadFolderIndex's fallback: fetch(folderPath) settles
HtmlFetch ==
  \E k \in DOMAIN loads, res \in FetchResults :
    /\ loads[k].at = "html"
    /\ IF res = "throw"
       THEN LoadFolderIndexSettles(k, "rejected", "none", NoData)
       ELSE LoadFolderIndexAwaits(k, "text")
    /\ UNCHANGED << page, rootPc, manifest, rootTiles, hidden, expanded, clicks >>
    /\ UNCHANGED zipVars

\* loadFolderIndex's fallback: res.text() settles and the HTML is parsed
HtmlText ==
  \E k \in DOMAIN loads, ok \in BOOLEAN :
    \E anchors \in (IF ok THEN Listings ELSE { << >> }) :
      \E imgs \in (IF ok THEN ImgLists ELSE { << >> }) :
        /\ loads[k].at = "text"
        /\ IF ok
           THEN LoadFolderIndexSettles(k, "returned", "html", HtmlIndex(anchors, imgs))
           ELSE LoadFolderIndexSettles(k, "rejected", "none", NoData)
        /\ UNCHANGED << page, rootPc, manifest, rootTiles, hidden, expanded, clicks >>
        /\ UNCHANGED zipVars

\* ------------------------------------------------------------ specifications
Next ==
  \/ ClickTileZip
  \/ ClickPageZip
  \/ OverrideProbe
  \/ FindAvailableZipStep
  \/ EnsureJSZipSettles
  \/ CreateZipListing
  \/ TaskSettles
  \/ GenUpdate
  \/ GenDone
  \/ DownloadFilesSequentiallyStep
  \/ ClickDownloadAll
  \/ DownloadAllListing
  \/ DownloadAllFallbackStep

Spec == Init /\ [][Next]_vars

\* the same page where a.click() can throw
InitFault ==
  /\ BrowseAtRest
  /\ ZipAtRest
  /\ clickThrows = TRUE

SpecFault == InitFault /\ [][Next]_vars

\* The root page where only #download-all-root is used, and is also clicked
\* while a downloadAllVisible is in progress
NextBusy ==
  \/ ClickDownloadAll
  \/ ClickDownloadAllBusy
  \/ EnsureJSZipSettles
  \/ DownloadAllListing
  \/ TaskSettles
  \/ GenUpdate
  \/ GenDone
  \/ DownloadAllFallbackStep

SpecBusy == Init /\ [][NextBusy]_vars

\* mapWithConcurrency on its own: a build of the folder "Foo" taken at the call
\* mapWithConcurrency(files, mapper, limit), for every limit and task list
\* within the bounds
InitMap ==
  \E limit \in 1 .. MaxConc, anchors \in Listings :
    LET fl == Tasks(<<"photos", "Foo">>, ListingFiles(anchors), "Foo")
        t == StartTransfer("tile", fl, TRUE, NoBar, limit, FALSE)
    IN  /\ Len(fl) <= MaxFiles
        /\ BrowseAtRest
        /\ op = [kind |-> "tile", name |-> "Foo", dir |-> <<"photos", "Foo">>]
        /\ opsLeft = 0
        /\ lastRes = "notok"
        /\ cands = TileCandidates("Foo", <<"photos", "Foo">>)
        /\ probes = [k \in 1 .. 4 |-> [url |-> cands[k], found |-> FALSE]]
        /\ ci = 4
        /\ jszipLoaded = TRUE
        /\ hasZip = TRUE
        /\ buildStarted = TRUE
        /\ listed = 1
        /\ tiles = << >>
        /\ tix = 0
        /\ files = fl
        /\ concurrency = limit
        /\ idx = t.idx
        /\ executing = t.executing
        /\ status = t.status
        /\ starts = t.starts
        /\ completed = 0
        /\ zip = {}
        /\ genCount = 0
        /\ si = 0
        /\ bar = t.bar
        /\ wrote = FALSE
        /\ log = << >>
        /\ outcome = "none"
        /\ clickThrows = FALSE
        /\ busy = FALSE
        /\ allActive = 0
        /\ ignored = 0
        /\ pc = IF t.pc = "all" /\ Settled(t.status) THEN "gen" ELSE t.pc

NextMap ==
  \/ TaskSettles
  \/ GenUpdate
  \/ GenDone

SpecMap == InitMap /\ [][NextMap]_vars

\* mapWithConcurrency where every fetch in flight settles at some time and
\* generateAsync, a computation of the page itself, comes to its end
SpecMapLive ==
  /\ InitMap
  /\ [][NextMap]_vars
  /\ WF_vars(TaskSettles)
  /\ WF_vars(GenDone)

\* Discovery on its own: the root page from the call of renderRoot on, with
\* the toggle of its first tile, or a folder page from the call of
\* renderFolderPage on.  No archive request is made.
InitBrowse ==
  \E pg \in {"root", "folder"} :
    /\ page = pg
    /\ rootPc = IF pg = "root" THEN "manifest" ELSE "none"
    /\ manifest = NoManifest
    /\ rootTiles = << >>
    /\ hidden = TRUE
    /\ expanded = FALSE
    /\ loaded = FALSE
    /\ clicks = 0
    /\ loads = IF pg = "folder" THEN << NewLoad("page") >> ELSE << >>
    /\ content = [kind |-> "none", data |-> NoData]
    /\ pc = "idle"
    /\ op = NoOp
    /\ opsLeft = 0
    /\ probes = << >>
    /\ lastRes = "none"
    /\ cands = << >>
    /\ ci = 0
    /\ jszipLoaded = FALSE
    /\ hasZip = TRUE
    /\ buildStarted = FALSE
    /\ listed = 0
    /\ tiles = << >>
    /\ tix = 0
    /\ files = << >>
    /\ concurrency = Concurrency
    /\ idx = 1
    /\ executing = {}
    /\ status = << >>
    /\ starts = << >>
    /\ completed = 0
    /\ zip = {}
    /\ genCount = 0
    /\ si = 0
    /\ bar = NoBar
    /\ wrote = FALSE
    /\ log = << >>
    /\ outcome = "none"
    /\ clickThrows = FALSE
    /\ busy = FALSE
    /\ allActive = 0
    /\ ignored = 0

NextBrowse ==
  \/ ManifestFetch
  \/ ManifestJson
  \/ RootFetch
  \/ RootText
  \/ ToggleClick
  \/ IndexFetch
  \/ IndexJson
  \/ HtmlFetch
  \/ HtmlText

SpecBrowse == InitBrowse /\ [][NextBrowse]_vars

\* The progress values of the fetch phase on their own: a build of the folder
\* "Foo" over a task list of any length up to MaxTotal, taken at the call of
\* mapWithConcurrency.  Only the number of resolved tasks is followed, not
\* which of them are in flight.
InitPercent ==
  \E total \in 1 .. MaxTotal :
    /\ BrowseAtRest
    /\ clickThrows = FALSE
    /\ busy = FALSE
    /\ allActive = 0
    /\ ignored = 0
    /\ pc = "race"
    /\ op = [kind |-> "tile", name |-> "Foo", dir |-> <<"photos", "Foo">>]
    /\ opsLeft = 0
    /\ lastRes = "notok"
    /\ cands = TileCandidates("Foo", <<"photos", "Foo">>)
    /\ probes = [k \in 1 .. 4 |-> [url |-> cands[k], found |-> FALSE]]
    /\ ci = 4
    /\ jszipLoaded = TRUE
    /\ hasZip = TRUE
    /\ buildStarted = TRUE
    /\ listed = 1
    /\ tiles = << >>
    /\ tix = 0
    /\ files = [k \in 1 .. total |-> [dir |-> <<"photos", "Foo">>,
                                      href |-> <<ToString(k) \o ".jpg">>,
                                      folder |-> "Foo"]]
    /\ concurrency = Concurrency
    /\ idx = 1
    /\ executing = {}
    /\ status = << >>
    /\ starts = << >>
    /\ completed = 0
    /\ zip = {}
    /\ genCount = 0
    /\ si = 0
    /\ bar = ShowGlobalProgress(NoBar)
    /\ wrote = FALSE
    /\ log = << >>
    /\ outcome = "none"

NextPercent == MapperFinally

SpecPercent == InitPercent /\ [][NextPercent]_vars

\* =============================================================== properties
Range(f) == { f[k] : k \in DOMAIN f }

IsFolderRequest == op.kind \in {"tile", "page"}

\* the name of the requested folder itself: the last segment of its path
FolderOwnName == Last(op.dir)

\* the probes findAvailableZip issued for a tile: all but the special case's
GenericProbes == IF IsSpecial(op.name) /\ probes # << >> THEN Tail(probes) ELSE probes

\* C1: during mapWithConcurrency(list, mapper, N), for every limit N >= 1 and
\* every list, the number of mapper calls started and not yet settled is at
\* most N, whatever the order in which the fetches complete.
C1_InFlightAtMostLimit == Cardinality(InFlight) <= concurrency

\* C1 witness: the window is full while tasks still wait and one task has
\* already settled.
C1_WindowFull ==
  /\ Cardinality(InFlight) = concurrency
  /\ idx <= Len(files)
  /\ completed > 0

\* C2: in one archive build every task's fetch is started exactly once: never
\* twice while the build runs, and none is left unstarted once the mapping is
\* over, whatever the outcomes of the other tasks.
C2_EachTaskStartedOnce ==
  /\ \A k \in DOMAIN starts : starts[k] <= 1
  /\ \A k \in DOMAIN starts : (starts[k] = 1) <=> (status[k] # "new")
  /\ pc \notin {"race", "all"} => \A k \in DOMAIN starts : starts[k] = 1

\* C2 witness: a build with more tasks than the limit has mapped them all,
\* one of them having failed.
C2_AllMappedDespiteFailure ==
  /\ pc = "gen"
  /\ Len(files) > concurrency
  /\ \E k \in DOMAIN status : status[k] = "fail"
  /\ \E k \in DOMAIN status : status[k] = "ok"

\* C3 (as claimed): when createZipFromFolder has produced its archive, the
\* files the archive holds are exactly the listed files whose fetch succeeded.
C3_ArchiveHoldsSucceededFiles ==
  (IsFolderRequest /\ outcome = "archive")
    => { e.src : e \in zip }
         = { files[k].dir \o files[k].href : k \in { j \in DOMAIN status : status[j] = "ok" } }

\* C4 (as claimed): within one operation, from its first write of the progress
\* indicator on, no write lowers the indicator's value.
C4_ProgressNeverDecreases ==
  [][(wrote /\ wrote') => bar'.value >= bar.value]_vars

\* C5: when an operation that had at least one task ends, by the archive path
\* or by the sequential-download path, the progress indicator's value is 100,
\* whichever tasks failed.
C5_EndsAtHundred ==
  (pc = "idle" /\ outcome \in {"archive", "sequential"})
    => (bar.exists /\ bar.value = 100)

\* C5 witness: an archive build ended after a failed task and a progress
\* callback of the encoder.
C5_ArchiveEndedAfterFailure ==
  /\ pc = "idle"
  /\ outcome = "archive"
  /\ genCount > 0
  /\ \E k \in DOMAIN status : status[k] = "fail"

\* C6: for a folder named like the special name (in any case), the override
\* archive is the first thing probed, and when that probe succeeds the request
\* downloads the override archive and does nothing else: no generic candidate
\* is probed and no client-side build is started.
C6_OverrideShortCircuits ==
  (IsFolderRequest /\ Lower(FolderOwnName) = "minnesota" /\ probes # << >>)
    => /\ probes[1].url = OverrideUrl
       /\ probes[1].found
            => /\ Len(probes) = 1
               /\ pc = "idle"
               /\ outcome = "prebuilt"
               /\ log = << Download("prebuilt", OverrideUrl, "minnesota.zip") >>
               /\ ~buildStarted
               /\ listed = 0

\* C6 witness: the tile of a folder named "Minnesota" got the override archive.
C6_OverrideDownloaded ==
  /\ op.kind = "tile"
  /\ op.name = "Minnesota"
  /\ outcome = "prebuilt"
  /\ Len(probes) = 1
  /\ probes[1].found

\* C7 (as claimed): for a folder whose name is not the special name, on a tile
\* or on a folder page, only that folder's own four generic candidates are
\* probed, and the override archive is never what is downloaded.
C7_OverrideOnlyForSpecial ==
  (IsFolderRequest /\ Lower(FolderOwnName) # "minnesota")
    => /\ \A k \in DOMAIN probes :
            probes[k].url \in Range(TileCandidates(FolderOwnName, op.dir))
       /\ \A k \in DOMAIN log : log[k].url # OverrideUrl

\* C8: on a folder tile the generic candidates are probed in the order
\* <path><name>.zip, <path><name>.ZIP, /photos/<name>.zip,
\* /photos/altfiles/<name>.zip (name URL-encoded); the first candidate whose
\* probe succeeds is downloaded and nothing is probed after it; a probe that
\* answers not-ok or throws is a failed probe, after which the next candidate
\* is probed; the build starts exactly when all four have failed.
C8_CandidatesInOrder ==
  op.kind = "tile" =>
    LET g == GenericProbes
        fn == Encode(op.name)
        expected == << op.dir \o <<fn \o ".zip">>,
                       op.dir \o <<fn \o ".ZIP">>,
                       <<"photos", fn \o ".zip">>,
                       <<"photos", "altfiles", fn \o ".zip">> >>
    IN  /\ Len(g) <= 4
        /\ \A k \in 1 .. Len(g) : g[k].url = expected[k]
        /\ \A k \in 1 .. (Len(g) - 1) : ~g[k].found
        /\ Len(g) >= 1 =>
             /\ (lastRes = "ok") <=> g[Len(g)].found
             /\ g[Len(g)].found =>
                  /\ pc = "idle"
                  /\ outcome = "prebuilt"
                  /\ log = << Download("prebuilt", g[Len(g)].url, op.name \o ".zip") >>
             /\ (~g[Len(g)].found /\ Len(g) < 4) => (pc = "probe" /\ ci = Len(g) + 1)
        /\ buildStarted <=> (Len(g) = 4 /\ ~g[4].found)

\* C8 witness: the third candidate of the tile "My Pics" was found after two
\* failed probes.
C8_ThirdCandidateFound ==
  /\ op.kind = "tile"
  /\ op.name = "My Pics"
  /\ Len(probes) = 3
  /\ probes[3].found
  /\ probes[3].url = <<"photos", "My%20Pics.zip">>
  /\ outcome = "prebuilt"

\* C9: a folder archive request enters createZipFromFolder exactly when no
\* probe is pending any more and every probe failed; once a probe has
\* succeeded the pre-built archive is downloaded and the request fetches no
\* listing, fetches no file and writes no progress.
C9_BuildIffAllProbesFailed ==
  IsFolderRequest =>
    /\ buildStarted <=> /\ pc \notin {"override", "probe"}
                        /\ probes # << >>
                        /\ \A k \in DOMAIN probes : ~probes[k].found
    /\ buildStarted => \A c \in Range(cands) : \E k \in DOMAIN probes : probes[k].url = c
    /\ (\E k \in DOMAIN probes : probes[k].found)
         => /\ pc = "idle"
            /\ outcome = "prebuilt"
            /\ Len(log) = 1
            /\ log[1].type = "prebuilt"
            /\ log[1].url = probes[Len(probes)].url
            /\ listed = 0
            /\ files = << >>
            /\ ~wrote

\* C9 witness: a folder page request whose five probes all failed is fetching
\* the files of its build.
C9_BuildAfterFailedProbes ==
  /\ op.kind = "page"
  /\ Len(probes) = 5
  /\ buildStarted
  /\ listed = 1
  /\ InFlight # {}

\* C10: when ensureJSZip rejects, a folder request over a listing of M files
\* triggers the M single-file downloads in listing order, each followed by the
\* 250 ms pause before the next, and never an archive download or a file fetch.
C10_SequentialFallback ==
  (IsFolderRequest /\ buildStarted /\ ~hasZip) =>
    LET m == IF outcome = "sequential" THEN Len(files) ELSE si
    IN  /\ \A k \in DOMAIN log : log[k].type # "archive"
        /\ \A k \in DOMAIN starts : starts[k] = 0
        /\ (pc = "pause" \/ outcome = "sequential") =>
             /\ Len(log) = 2 * m
             /\ m >= 1
             /\ \A k \in 1 .. m :
                  /\ log[2 * k - 1].type = "file"
                  /\ log[2 * k - 1].url = op.dir \o files[k].href
                  /\ log[2 * k].type = "pause"
                  /\ log[2 * k].ms = FolderPauseMs

\* C10 witness: the fallback of a tile went through a listing of three files.
C10_ThreeFilesOneByOne ==
  /\ op.kind = "tile"
  /\ ~hasZip
  /\ Len(files) = 3
  /\ outcome = "sequential"

\* the loadFolderIndex calls the toggle handler made that have not failed
TileLoads == { k \in DOMAIN loads : loads[k].caller = "tile" /\ loads[k].at # "rejected" }

\* C11: under any sequence of clicks on one tile's toggle, clicks made while
\* a load is pending included, at most one loadFolderIndex request that has
\* not failed was issued for the tile.
C11_DiscoveryRequestedOnce == Cardinality(TileLoads) <= 1

\* C12: loadManifest never throws to renderRoot.  When the fetch or the parse
\* of /photos/manifest.json fails it goes on to the anchors of the /photos/
\* listing, and when that fails too it returns a folder list without entries.
C12_LoadManifestNeverThrows ==
  /\ [](manifest.status # "rejected" /\ rootPc # "failed")
  /\ [][(rootPc \in {"manifest", "mjson"} /\ rootPc' # "mjson" /\ manifest'.via # "json")
          => (rootPc' = "root" /\ manifest'.status = "pending")]_vars
  /\ [][(rootPc \in {"root", "rtext"} /\ rootPc' # "rtext")
          => /\ rootPc' = "done"
             /\ manifest'.status = "returned"
             /\ manifest'.via \in {"html", "empty"}
             /\ (manifest'.via = "empty" => manifest'.folders = << >>)
             /\ rootTiles' = manifest'.folders]_vars

\* C12 witness: the manifest and the listing of /photos/ both failed, and
\* renderRoot got a folder list without entries
C12_BothFailedEmptyList ==
  /\ rootPc = "done"
  /\ manifest.status = "returned"
  /\ manifest.via = "empty"
  /\ manifest.folders = << >>

\* C13: once createZipFromFolder or downloadAllVisible has its task list and
\* the indicator, and until its first task resolves, the indicator's value
\* is 0, also when an earlier request of the page left it at 100.
C13_StartsAtZero ==
  (buildStarted /\ pc \in {"race", "all", "pause"} /\ completed = 0) => bar.value = 0

\* the URLs of the files whose link was built and clicked, whether the click
\* went through or threw
Triggered == { log[k].url : k \in { j \in DOMAIN log : log[j].type \in {"file", "threw"} } }

\* C14: a sequential fallback that has begun (si >= 1) and is over, per folder
\* or for all folders, has ended normally and has triggered every file of its list, also when
\* the click on one of them threw.
C14_FallbackNeverFatal ==
  (buildStarted /\ ~hasZip /\ si >= 1 /\ pc = "idle")
    => /\ outcome = "sequential"
       /\ Triggered = { files[k].dir \o files[k].href : k \in DOMAIN files }

\* C15: a per-folder archive request never ends with an uncaught error: a
\* rejected fetch of a probe, of the folder listing or of a file is caught
\* and treated as "not found" or "skip this item".
C15_TransportFailuresCaught == IsFolderRequest => outcome # "error"

\* C16: every call of loadFolderIndex ends by returning a {files, folders}
\* listing, from index.json or from the folder's HTML, and never by an
\* exception, whatever its fetches answer.
C16_LoadFolderIndexAlwaysReturns ==
  \A k \in DOMAIN loads : loads[k].at # "rejected"

\* C17: the page never holds more than one progress indicator element: a
\* call of showGlobalProgress that finds none creates it with value 0, and
\* once it exists no call creates another.
C17_OneIndicator ==
  /\ [](bar.count <= 1 /\ (bar.exists <=> bar.count = 1))
  /\ [][(~bar.exists /\ bar'.exists) => bar'.value = 0]_vars
  /\ [][bar.exists => (bar'.exists /\ bar'.count = bar.count)]_vars

\* C17 witness: the second request of the page has called showGlobalProgress
\* for its build and holds the element the first request left at 100
C17_SecondRequestSameElement ==
  /\ opsLeft = 0
  /\ buildStarted
  /\ hasZip
  /\ pc \in {"race", "all"}
  /\ completed = 0
  /\ bar.exists
  /\ bar.count = 1
  /\ bar.value = 100

\* C18: whenever a task of mapWithConcurrency settles, by success or by
\* failure, while tasks of the list are still unstarted, the next unstarted
\* task is started in the same step, whatever else is still in flight.
C18_AdmitsOnEachSettle ==
  [][(pc \in {"race", "all"} /\ completed' = completed + 1 /\ idx <= Len(files))
      => (status'[idx] = "inflight" /\ starts'[idx] = 1 /\ idx' = idx + 1)]_vars

\* C18 witness: one task has settled and the task behind the window was
\* started while another task of the first window is still in flight
C18_AdmittedWhileOthersInFlight ==
  /\ concurrency >= 2
  /\ completed = 1
  /\ Len(files) > concurrency
  /\ status[concurrency + 1] = "inflight"
  /\ \E k \in 1 .. concurrency : status[k] = "inflight"

\* C19: the fetches of a build are started in task-list order: a task is
\* never started while a task before it in the list is still unstarted, in
\* whatever order the earlier fetches complete.
C19_StartedInListOrder ==
  /\ [](\A j \in DOMAIN status :
         status[j] # "new" => \A i \in 1 .. j - 1 : status[i] # "new")
  /\ [][\A j \in DOMAIN status :
          (status[j] = "new" /\ status'[j] # "new")
            => \A i \in 1 .. j - 1 : status'[i] # "new"]_vars

\* C19 witness: the second task completed before the first, and the third
\* was started behind them while a later task still waits
C19_StartedAfterOutOfOrderCompletion ==
  /\ Len(files) >= 3
  /\ concurrency = 2
  /\ status[1] = "inflight"
  /\ status[2] \in {"ok", "fail"}
  /\ status[3] = "inflight"

\* C20: after each task of the fetch phase has resolved, the indicator shows
\* completed / total * 100 rounded to a nearest integer, a value in 0 .. 100,
\* and 100 once all tasks have resolved; it shows 100 before that only from
\* completed / total >= 0.995 on.
C20_ProgressIsRoundedShare ==
  (pc = "race" /\ completed >= 1) =>
    LET v == bar.value
        k == completed
        m == Len(files)
    IN  /\ 2 * m * v - m <= 200 * k
        /\ 200 * k <= 2 * m * v + m
        /\ v \in 0 .. 100
        /\ (k = m => v = 100)
        /\ (v = 100 => 200 * k >= 199 * m)

\* C20 witness: 199 of 200 tasks have resolved and the indicator shows 100
C20_HundredBeforeTheLastTask ==
  /\ pc = "race"
  /\ Len(files) = 200
  /\ completed = 199
  /\ bar.value = 100

\* C20 as stated: the indicator shows 100 exactly when all tasks have
\* resolved
C20_HundredExactlyWhenAllResolved ==
  (pc = "race" /\ completed >= 1) => (bar.value = 100 <=> completed = Len(files))

\* the archive downloads the request has triggered
ArchiveDownloads == { k \in DOMAIN log : log[k].type = "archive" }

\* C21: a build over a task list that is not empty, all of whose fetches
\* settle at some time, comes to the end of its list and triggers one archive
\* download, also when fetches fail; it never triggers a second one and
\* nothing ends it before that.
C21_BuildEndsWithOneArchive ==
  /\ (pc \in {"race", "all"} /\ files # << >>)
       ~> (/\ pc = "idle"
           /\ outcome = "archive"
           /\ completed = Len(files)
           /\ \A k \in DOMAIN status : status[k] \in {"ok", "fail"}
           /\ Cardinality(ArchiveDownloads) = 1)
  /\ [](Cardinality(ArchiveDownloads) <= 1)
  /\ [][(pc \in {"race", "all", "gen"})
          => (pc' \in {"race", "all", "gen"} \/ outcome' = "archive")]_vars

\* C21 witness: every fetch of a list of several tasks failed and the build
\* still ended with its one archive download
C21_AllFailedStillArchived ==
  /\ pc = "idle"
  /\ outcome = "archive"
  /\ Len(files) >= 2
  /\ \A k \in DOMAIN status : status[k] = "fail"
  /\ Cardinality(ArchiveDownloads) = 1

\* C22: a download-all that has collected at least one file is not ended by
\* the failed listing of another folder, not-ok or rejected: it shows no
\* failure notification and does not end in an error.
C22_ListingFailureSkipsFolder ==
  (op.kind = "all" /\ files # << >>)
    => /\ outcome # "error"
       /\ \A k \in DOMAIN log : log[k].type # "alert"

\* C23: at most one downloadAllVisible is in progress at a time and the busy
\* flag is set exactly while one is; a click made while one is in progress
\* changes nothing of the request; when the operation has ended, by success
\* or by an error, the flag is clear again.
C23_BusyGuard ==
  /\ [](allActive <= 1 /\ (busy <=> allActive = 1))
  /\ [](pc = "idle" => ~busy)
  /\ [][(ignored' # ignored)
          => UNCHANGED << pc, op, opsLeft, tiles, tix, files, idx, executing, status,
                          starts, completed, zip, genCount, si, bar, wrote, log, outcome,
                          busy, allActive >>]_vars

\* C23 witness: a click was turned away while a download-all ran, a first
\* download-all has ended before any transfer (no files found, or an error),
\* and a later click has started the one now in progress
C23_NewOperationAfterEnd ==
  /\ ignored >= 1
  /\ opsLeft = 0
  /\ op.kind = "all"
  /\ busy
  /\ pc = "all"
  /\ bar.exists
  /\ bar.value = 0

\* C24: whenever the tile's loaded flag is set, its content container shows
\* the listing rendered from a load that returned, never the text "Failed to
\* load contents".
C24_LoadedShowsContents ==
  (page = "root" /\ loaded) => content.kind = "listing"

====
